---- MODULE Spec2Model ----
(***************************************************************************)
(* Vanity-address search of intpjh/walletcreate:                           *)
(*   src/utils/wallet-generator.js  matchers, validation, the three        *)
(*                                  single-threaded search loops and the   *)
(*                                  three pooled (worker_threads) searches *)
(*   src/utils/worker.js            the worker's search loop               *)
(*                                                                         *)
(* Strings are sequences of character codes (ASCII), so that the regular   *)
(* expression of isValidPattern, toLowerCase and trim are computed on the  *)
(* characters as the JavaScript does.                                      *)
(***************************************************************************)
EXTENDS Integers, Sequences, FiniteSets, TLC

VARIABLES
    call,           \* the arguments of the entry point that was called
    phase,          \* position of the main thread
    error,          \* the Error thrown synchronously by a single-threaded entry point
    attempts,       \* `let attempts` of the single-threaded loop
    result,         \* the object returned by the single-threaded loop
    cbLog,          \* arguments of the successive progressCallback invocations
    numWorkers,     \* `const numWorkers` of the promise executor
    workers,        \* `const workers = []` of the promise executor
    totalAttempts,  \* `let totalAttempts` of the promise executor
    resolved,       \* `let resolved` of the promise executor
    promise,        \* the promise returned by the pooled entry point
    wstatus,        \* per worker: "none", "running", "done" (left the loop), "crashed"
    wattempts,      \* per worker: `let attempts` of worker.js (0 once the thread is gone)
    wkey,           \* per worker: the keypair of the matching iteration
    sent,           \* per worker: every event the worker emitted, in order
    recv,           \* per worker: how many of its events the main thread has handled
    terminated,     \* per worker: terminate() was called on it
    twin            \* a second execution, compared with this one: its state, and
                    \* whether the two have changed places

vars == <<call, phase, error, attempts, result, cbLog, numWorkers, workers,
          totalAttempts, resolved, promise, wstatus, wattempts, wkey,
          sent, recv, terminated, twin>>

singleVars == <<attempts, result, cbLog, error>>
poolVars == <<numWorkers, workers, totalAttempts, resolved, promise>>
workerVars == <<wstatus, wattempts, wkey, sent, terminated>>

----------------------------------------------------------------------------
(* Bounds of the model *)

\* largest workerCount explored
MaxWorkers == 2
\* os.cpus().length of the machine
NumCpus == 1
\* number of 10,000-iteration batch boundaries the single-threaded loop may reach
MaxBatches == 2

(* Program constants *)

\* `attempts % 10000 === 0`, `totalAttempts += 10000`
BatchSize == 10000
\* `startLength + endLength >= 44`
AddressLength == 44

----------------------------------------------------------------------------
(* Characters and strings *)

Ch == [sp |-> 32, zero |-> 48, one |-> 49, A |-> 65, B |-> 66, Z |-> 90,
       a |-> 97, b |-> 98, s |-> 115, x |-> 120, z |-> 122]

Rep(c, n) == [j \in 1..n |-> c]

\* String.prototype.toLowerCase on ASCII
toLowerCase(str) ==
    [j \in 1..Len(str) |-> IF str[j] \in 65..90 THEN str[j] + 32 ELSE str[j]]

\* String.prototype.startsWith
startsWith(str, p) ==
    Len(p) <= Len(str) /\ SubSeq(str, 1, Len(p)) = p

\* String.prototype.endsWith
endsWith(str, p) ==
    Len(p) <= Len(str) /\ SubSeq(str, Len(str) - Len(p) + 1, Len(str)) = p

\* String.prototype.includes
includes(str, p) ==
    \E k \in 0..(Len(str) - Len(p)) : SubSeq(str, k + 1, k + Len(p)) = p

\* JavaScript white space met in the inputs of the model
IsSpace(c) == c \in {9, 10, 11, 12, 13, 32}

\* String.prototype.trim
trim(str) ==
    LET keep == {j \in 1..Len(str) : ~IsSpace(str[j])}
    IN  IF keep = {} THEN <<>>
        ELSE LET lo == CHOOSE j \in keep : \A k \in keep : j <= k
                 hi == CHOOSE j \in keep : \A k \in keep : k <= j
             IN  SubSeq(str, lo, hi)

\* `x && x.trim().length > 0` (the empty string is falsy)
hasPattern(p) == Len(p) > 0 /\ Len(trim(p)) > 0

----------------------------------------------------------------------------
(* wallet-generator.js: validation and matchers *)

\* the character class [1-9A-HJ-NP-Za-km-z]
Base58Class ==
    (49..57) \cup (65..72) \cup (74..78) \cup (80..90) \cup (97..107) \cup (109..122)

isValidPattern_anyChar(pattern) == Len(pattern) >= 1

\* isValidPattern with [0-9] for [1-9] and [a-z] for [a-km-z]
isValidPattern_widerClass(pattern) ==
    /\ Len(pattern) >= 1
    /\ \A j \in 1..Len(pattern) :
          pattern[j] \in (48..57) \cup (65..72) \cup (74..78) \cup (80..90) \cup (97..122)

\* /^[1-9A-HJ-NP-Za-km-z]+$/.test(pattern)
isValidPattern(pattern) ==
    /\ Len(pattern) >= 1
    /\ \A j \in 1..Len(pattern) : pattern[j] \in Base58Class

\* matchesPattern that lower-cases the address only
matchesPattern_foldsAddressOnly(address, pattern, caseSensitive) ==
    IF ~caseSensitive
    THEN startsWith(toLowerCase(address), pattern)
    ELSE startsWith(address, pattern)

matchesPattern(address, pattern, caseSensitive) ==
    IF ~caseSensitive
    THEN startsWith(toLowerCase(address), toLowerCase(pattern))
    ELSE startsWith(address, pattern)

\* containsPattern that looks at offset 0 only
containsPattern_atStartOnly(address, pattern, caseSensitive) ==
    IF ~caseSensitive
    THEN startsWith(toLowerCase(address), toLowerCase(pattern))
    ELSE startsWith(address, pattern)

containsPattern(address, pattern, caseSensitive) ==
    IF ~caseSensitive
    THEN includes(toLowerCase(address), toLowerCase(pattern))
    ELSE includes(address, pattern)

\* matchesStartEndPattern with `||` for `&&` in the result
matchesStartEndPattern_eitherMatch(address, startPattern, endPattern, caseSensitive) ==
    LET hasStartPattern == hasPattern(startPattern)
        hasEndPattern == hasPattern(endPattern)
    IN  IF ~hasStartPattern /\ ~hasEndPattern THEN TRUE
        ELSE IF ~caseSensitive
        THEN LET lowerAddress == toLowerCase(address)
                 lowerStart == IF hasStartPattern THEN toLowerCase(startPattern) ELSE <<>>
                 lowerEnd == IF hasEndPattern THEN toLowerCase(endPattern) ELSE <<>>
                 startMatch == ~hasStartPattern \/ startsWith(lowerAddress, lowerStart)
                 endMatch == ~hasEndPattern \/ endsWith(lowerAddress, lowerEnd)
             IN  IF hasStartPattern /\ hasEndPattern THEN startMatch \/ endMatch
                 ELSE startMatch /\ endMatch
        ELSE LET startMatch == ~hasStartPattern \/ startsWith(address, startPattern)
                 endMatch == ~hasEndPattern \/ endsWith(address, endPattern)
             IN  IF hasStartPattern /\ hasEndPattern THEN startMatch \/ endMatch
                 ELSE startMatch /\ endMatch

\* matchesStartEndPattern with startsWith for endsWith
matchesStartEndPattern_endAsPrefix(address, startPattern, endPattern, caseSensitive) ==
    LET hasStartPattern == hasPattern(startPattern)
        hasEndPattern == hasPattern(endPattern)
    IN  IF ~hasStartPattern /\ ~hasEndPattern THEN TRUE
        ELSE IF ~caseSensitive
        THEN LET lowerAddress == toLowerCase(address)
                 lowerStart == IF hasStartPattern THEN toLowerCase(startPattern) ELSE <<>>
                 lowerEnd == IF hasEndPattern THEN toLowerCase(endPattern) ELSE <<>>
                 startMatch == ~hasStartPattern \/ startsWith(lowerAddress, lowerStart)
                 endMatch == ~hasEndPattern \/ startsWith(lowerAddress, lowerEnd)
             IN  startMatch /\ endMatch
        ELSE LET startMatch == ~hasStartPattern \/ startsWith(address, startPattern)
                 endMatch == ~hasEndPattern \/ startsWith(address, endPattern)
             IN  startMatch /\ endMatch

matchesStartEndPattern(address, startPattern, endPattern, caseSensitive) ==
    LET hasStartPattern == hasPattern(startPattern)
        hasEndPattern == hasPattern(endPattern)
    IN  IF ~hasStartPattern /\ ~hasEndPattern THEN TRUE
        ELSE IF ~caseSensitive
        THEN LET lowerAddress == toLowerCase(address)
                 lowerStart == IF hasStartPattern THEN toLowerCase(startPattern) ELSE <<>>
                 lowerEnd == IF hasEndPattern THEN toLowerCase(endPattern) ELSE <<>>
                 startMatch == ~hasStartPattern \/ startsWith(lowerAddress, lowerStart)
                 endMatch == ~hasEndPattern \/ endsWith(lowerAddress, lowerEnd)
             IN  startMatch /\ endMatch
        ELSE LET startMatch == ~hasStartPattern \/ startsWith(address, startPattern)
                 endMatch == ~hasEndPattern \/ endsWith(address, endPattern)
             IN  startMatch /\ endMatch

\* `const base58Length = 58`
base58Length == 58

\* Math.pow on non-negative integers
RECURSIVE pow(_, _)
pow(base, exponent) == IF exponent = 0 THEN 1 ELSE base * pow(base, exponent - 1)

\* estimateAttempts that takes the case-sensitive base in both cases
estimateAttempts_sameBase(pattern, caseSensitive) ==
    LET patternLength == Len(pattern)
    IN  pow(base58Length, patternLength)

estimateAttempts(pattern, caseSensitive) ==
    LET patternLength == Len(pattern)
    IN  IF ~caseSensitive
        THEN pow(base58Length \div 2, patternLength)
        ELSE pow(base58Length, patternLength)

(* worker.js: its own copies of the matchers *)

worker_matchesPattern(address, pattern, caseSensitive) ==
    IF ~caseSensitive
    THEN startsWith(toLowerCase(address), toLowerCase(pattern))
    ELSE startsWith(address, pattern)

worker_containsPattern(address, pattern, caseSensitive) ==
    IF ~caseSensitive
    THEN includes(toLowerCase(address), toLowerCase(pattern))
    ELSE includes(address, pattern)

\* worker_matchesStartEndPattern that does not fold the address
worker_matchesStartEndPattern_addressUnfolded(address, startPattern, endPattern, caseSensitive) ==
    LET hasStartPattern == hasPattern(startPattern)
        hasEndPattern == hasPattern(endPattern)
    IN  IF ~hasStartPattern /\ ~hasEndPattern THEN TRUE
        ELSE IF ~caseSensitive
        THEN LET lowerAddress == address
                 lowerStart == IF hasStartPattern THEN toLowerCase(startPattern) ELSE <<>>
                 lowerEnd == IF hasEndPattern THEN toLowerCase(endPattern) ELSE <<>>
                 startMatch == ~hasStartPattern \/ startsWith(lowerAddress, lowerStart)
                 endMatch == ~hasEndPattern \/ endsWith(lowerAddress, lowerEnd)
             IN  startMatch /\ endMatch
        ELSE LET startMatch == ~hasStartPattern \/ startsWith(address, startPattern)
                 endMatch == ~hasEndPattern \/ endsWith(address, endPattern)
             IN  startMatch /\ endMatch

worker_matchesStartEndPattern(address, startPattern, endPattern, caseSensitive) ==
    LET hasStartPattern == hasPattern(startPattern)
        hasEndPattern == hasPattern(endPattern)
    IN  IF ~hasStartPattern /\ ~hasEndPattern THEN TRUE
        ELSE IF ~caseSensitive
        THEN LET lowerAddress == toLowerCase(address)
                 lowerStart == IF hasStartPattern THEN toLowerCase(startPattern) ELSE <<>>
                 lowerEnd == IF hasEndPattern THEN toLowerCase(endPattern) ELSE <<>>
                 startMatch == ~hasStartPattern \/ startsWith(lowerAddress, lowerStart)
                 endMatch == ~hasEndPattern \/ endsWith(lowerAddress, lowerEnd)
             IN  startMatch /\ endMatch
        ELSE LET startMatch == ~hasStartPattern \/ startsWith(address, startPattern)
                 endMatch == ~hasEndPattern \/ endsWith(address, endPattern)
             IN  startMatch /\ endMatch

----------------------------------------------------------------------------
(* The keypair source.  Keypair.generate() draws one of the keypairs of    *)
(* KeyPool; a keypair is named by its index.  The address of a keypair is  *)
(* the base58 text of its public key, 44 characters long.                  *)

AddressTable ==
    << <<Ch.A, Ch.B>> \o Rep(Ch.x, 41) \o <<Ch.Z>>,      \* ABxxx...xxxZ
       <<Ch.a, Ch.b>> \o Rep(Ch.x, 41) \o <<Ch.z>>,      \* abxxx...xxxz
       <<Ch.x, Ch.A, Ch.B>> \o Rep(Ch.x, 41),            \* xABxx...xxxx
       Rep(Ch.x, 44) >>                                  \* xxxxx...xxxx

KeyPool == DOMAIN AddressTable

\* keypair.publicKey.toBase58()
toBase58(keypair) == AddressTable[keypair]

getAddressFromKeypair(keypair) == toBase58(keypair)

\* bs58.encode(keypair.secretKey): a text that names the secret key
getPrivateKeyFromKeypair(keypair) == <<Ch.s, Ch.zero + keypair>>

----------------------------------------------------------------------------
(* Inputs *)

\* pattern arguments of the prefix and substring searches
PatternPool ==
    { <<>>, <<Ch.A, Ch.B>>, <<Ch.zero>> }

\* (startPattern, endPattern, caseSensitive) arguments
StartEndPool ==
    { << <<>>, <<Ch.Z>>, TRUE >>,                    \* accepted: suffix only
      << <<Ch.A, Ch.B>>, <<>>, TRUE >>,              \* accepted: prefix only
      << <<Ch.A, Ch.B>>, <<Ch.Z>>, FALSE >>,         \* accepted: both
      << <<Ch.sp>>, <<Ch.Z>>, TRUE >>,               \* blank prefix
      << Rep(Ch.A, 22), Rep(Ch.Z, 21), TRUE >>,      \* 43 characters
      << Rep(Ch.A, 22), Rep(Ch.Z, 22), TRUE >>,      \* 44 characters
      << <<>>, Rep(Ch.Z, 44), TRUE >>,               \* suffix only, 44 characters
      << <<>>, <<>>, TRUE >>,                        \* both empty
      << <<Ch.sp>>, <<>>, FALSE >>,                  \* both absent
      << <<Ch.zero>>, <<Ch.Z>>, TRUE >>,             \* invalid prefix
      << <<Ch.A, Ch.B>>, <<Ch.zero>>, TRUE >>,       \* invalid suffix
      << <<Ch.zero>>, <<Ch.zero>>, FALSE >>,         \* both invalid
      << <<Ch.zero>>, Rep(Ch.Z, 44), TRUE >>,        \* invalid prefix, 45 characters
      << <<>>, <<Ch.zero>>, TRUE >> }                \* no prefix, invalid suffix

\* workerCount arguments: null (given = FALSE), or an integer
WorkerCounts ==
    {[given |-> FALSE, n |-> 0]} \cup {[given |-> TRUE, n |-> k] : k \in -1..MaxWorkers}

\* the workers a call can create
Workers == 1..(IF NumCpus > MaxWorkers THEN NumCpus ELSE MaxWorkers)

----------------------------------------------------------------------------
(* Values *)

NoCall == [fn |-> "none"]
NoResult == [attempts |-> 0]

ErrorObj(name, w) == [name |-> name, worker |-> w]

Pending == [state |-> "pending", value |-> ErrorObj("none", 0)]

\* the settle functions of a promise: only the first call has an effect
resolve(p, v) ==
    IF p.state = "pending" THEN [state |-> "fulfilled", value |-> v] ELSE p

reject(p, e) ==
    IF p.state = "pending" THEN [state |-> "rejected", value |-> e] ELSE p

\* a run of loop iterations: the last one is the iteration the action
\* executes, the ones before it generate non-matching candidates and reach
\* no batch boundary
RunLens(a, cap) ==
    {n \in {1, BatchSize - (a % BatchSize)} :
        /\ a + n <= cap
        /\ n = 1 => (a % BatchSize = 0 \/ a % BatchSize = BatchSize - 1)}

\* the single-threaded loop is followed to one iteration past its last batch
LoopCap == MaxBatches * BatchSize + 1

\* a worker's loop is followed to one iteration past its first batch
WorkerCap == BatchSize + 1

\* the second execution before its call, in step with the first
NoTwin ==
    [swapped |-> FALSE,
     state |-> [call |-> NoCall, phase |-> "idle", error |-> "none", attempts |-> 0,
                result |-> NoResult, cbLog |-> <<>>, numWorkers |-> 0,
                workers |-> <<>>, totalAttempts |-> 0, resolved |-> FALSE,
                promise |-> [state |-> "none", value |-> ErrorObj("none", 0)],
                wstatus |-> [w \in Workers |-> "none"],
                wattempts |-> [w \in Workers |-> 0],
                wkey |-> [w \in Workers |-> 0],
                sent |-> [w \in Workers |-> <<>>],
                recv |-> [w \in Workers |-> 0],
                terminated |-> [w \in Workers |-> FALSE]]]

Init ==
    /\ call = NoCall
    /\ phase = "idle"
    /\ error = "none"
    /\ attempts = 0
    /\ result = NoResult
    /\ cbLog = <<>>
    /\ numWorkers = 0
    /\ workers = <<>>
    /\ totalAttempts = 0
    /\ resolved = FALSE
    /\ promise = [state |-> "none", value |-> ErrorObj("none", 0)]
    /\ wstatus = [w \in Workers |-> "none"]
    /\ wattempts = [w \in Workers |-> 0]
    /\ wkey = [w \in Workers |-> 0]
    /\ sent = [w \in Workers |-> <<>>]
    /\ recv = [w \in Workers |-> 0]
    /\ terminated = [w \in Workers |-> FALSE]
    /\ twin = NoTwin

----------------------------------------------------------------------------
(* wallet-generator.js: the single-threaded searches *)

Args(fn, pattern, startPattern, endPattern, caseSensitive, workerCount, hasCb) ==
    [fn |-> fn, pattern |-> pattern, startPattern |-> startPattern,
     endPattern |-> endPattern, caseSensitive |-> caseSensitive,
     workerCount |-> workerCount, hasCb |-> hasCb]

NoCount == [given |-> FALSE, n |-> 0]

\* `throw new Error(...)` of a synchronous entry point
Throw(name) ==
    /\ phase' = "thrown"
    /\ error' = name
    /\ UNCHANGED <<attempts, result, cbLog>>

\* `let attempts = 0` and the entry into the do-while loop
EnterLoop ==
    /\ phase' = "loop"
    /\ attempts' = 0
    /\ UNCHANGED <<error, result, cbLog>>

\* StartEndCheck with `||` for `&&` in the both-empty test
StartEndCheck_eitherEmpty(startPattern, endPattern) ==
    LET hasStartPattern == hasPattern(startPattern)
        hasEndPattern == hasPattern(endPattern)
        startLength == IF hasStartPattern THEN Len(startPattern) ELSE 0
        endLength == IF hasEndPattern THEN Len(endPattern) ELSE 0
    IN  IF ~hasStartPattern \/ ~hasEndPattern THEN "EmptyDual"
        ELSE IF hasStartPattern /\ ~isValidPattern(startPattern) THEN "InvalidStart"
        ELSE IF hasEndPattern /\ ~isValidPattern(endPattern) THEN "InvalidEnd"
        ELSE IF startLength + endLength >= AddressLength THEN "TooLong"
        ELSE "none"

\* StartEndCheck with `>` for `>=` in the length test
StartEndCheck_greaterThan(startPattern, endPattern) ==
    LET hasStartPattern == hasPattern(startPattern)
        hasEndPattern == hasPattern(endPattern)
        startLength == IF hasStartPattern THEN Len(startPattern) ELSE 0
        endLength == IF hasEndPattern THEN Len(endPattern) ELSE 0
    IN  IF ~hasStartPattern /\ ~hasEndPattern THEN "EmptyDual"
        ELSE IF hasStartPattern /\ ~isValidPattern(startPattern) THEN "InvalidStart"
        ELSE IF hasEndPattern /\ ~isValidPattern(endPattern) THEN "InvalidEnd"
        ELSE IF startLength + endLength > AddressLength THEN "TooLong"
        ELSE "none"

\* StartEndCheck that tests the combined length before the characters
StartEndCheck_lengthFirst(startPattern, endPattern) ==
    LET hasStartPattern == hasPattern(startPattern)
        hasEndPattern == hasPattern(endPattern)
        startLength == IF hasStartPattern THEN Len(startPattern) ELSE 0
        endLength == IF hasEndPattern THEN Len(endPattern) ELSE 0
    IN  IF ~hasStartPattern /\ ~hasEndPattern THEN "EmptyDual"
        ELSE IF startLength + endLength >= AddressLength THEN "TooLong"
        ELSE IF hasStartPattern /\ ~isValidPattern(startPattern) THEN "InvalidStart"
        ELSE IF hasEndPattern /\ ~isValidPattern(endPattern) THEN "InvalidEnd"
        ELSE "none"

\* the checks of generateVanityWalletStartEnd before its loop: the name of
\* the error thrown, or "none"
StartEndCheck(startPattern, endPattern) ==
    LET hasStartPattern == hasPattern(startPattern)
        hasEndPattern == hasPattern(endPattern)
        startLength == IF hasStartPattern THEN Len(startPattern) ELSE 0
        endLength == IF hasEndPattern THEN Len(endPattern) ELSE 0
    IN  IF ~hasStartPattern /\ ~hasEndPattern THEN "EmptyDual"
        ELSE IF hasStartPattern /\ ~isValidPattern(startPattern) THEN "InvalidStart"
        ELSE IF hasEndPattern /\ ~isValidPattern(endPattern) THEN "InvalidEnd"
        ELSE IF startLength + endLength >= AddressLength THEN "TooLong"
        ELSE "none"

generateVanityWallet ==
    /\ phase = "idle"
    /\ \E pattern \in PatternPool, caseSensitive \in BOOLEAN, hasCb \in BOOLEAN :
        /\ call' = Args("generateVanityWallet", pattern, <<>>, <<>>, caseSensitive,
                        NoCount, hasCb)
        /\ IF ~isValidPattern(pattern) THEN Throw("InvalidPattern") ELSE EnterLoop
    /\ UNCHANGED <<twin, poolVars, workerVars, recv>>

generateVanityWalletContains ==
    /\ phase = "idle"
    /\ \E pattern \in PatternPool, caseSensitive \in BOOLEAN, hasCb \in BOOLEAN :
        /\ call' = Args("generateVanityWalletContains", pattern, <<>>, <<>>,
                        caseSensitive, NoCount, hasCb)
        /\ IF ~isValidPattern(pattern) THEN Throw("InvalidPattern") ELSE EnterLoop
    /\ UNCHANGED <<twin, poolVars, workerVars, recv>>

generateVanityWalletStartEnd ==
    /\ phase = "idle"
    /\ \E patterns \in StartEndPool, hasCb \in BOOLEAN :
        LET startPattern == patterns[1]
            endPattern == patterns[2]
            caseSensitive == patterns[3]
            e == StartEndCheck(startPattern, endPattern)
        IN  /\ call' = Args("generateVanityWalletStartEnd", <<>>, startPattern,
                            endPattern, caseSensitive, NoCount, hasCb)
            /\ IF e # "none" THEN Throw(e) ELSE EnterLoop
    /\ UNCHANGED <<twin, poolVars, workerVars, recv>>

\* the loop condition of the function that was called
LoopMatch(address) ==
    CASE call.fn = "generateVanityWallet" ->
            matchesPattern(address, call.pattern, call.caseSensitive)
      [] call.fn = "generateVanityWalletContains" ->
            containsPattern(address, call.pattern, call.caseSensitive)
      [] call.fn = "generateVanityWalletStartEnd" ->
            matchesStartEndPattern(address, call.startPattern, call.endPattern,
                                   call.caseSensitive)
      [] OTHER -> FALSE

\* SearchLoop that tests the match before it reports progress, and does not
\* report on the matching iteration
SearchLoop_noCallbackOnMatch ==
    /\ phase = "loop"
    /\ LET matching == {k \in KeyPool : LoopMatch(getAddressFromKeypair(k))}
       IN  \E n \in RunLens(attempts, LoopCap), keypair \in KeyPool :
        LET address == getAddressFromKeypair(keypair)
            count == attempts + n
        IN  /\ n > 1 => matching # KeyPool
            /\ attempts' = count
            /\ cbLog' = IF call.hasCb /\ count % BatchSize = 0 /\ keypair \notin matching
                        THEN Append(cbLog, count) ELSE cbLog
            /\ IF keypair \notin matching
               THEN UNCHANGED <<phase, result>>
               ELSE /\ phase' = "returned"
                    /\ result' = [address |-> address,
                                  privateKey |-> getPrivateKeyFromKeypair(keypair),
                                  publicKey |-> toBase58(keypair),
                                  attempts |-> count,
                                  keypair |-> keypair]
    /\ UNCHANGED <<twin, call, error, poolVars, workerVars, recv>>

\* SearchLoop that returns the private key of another candidate than the
\* one whose address matched
SearchLoop_keyOfOtherCandidate ==
    /\ phase = "loop"
    /\ LET matching == {k \in KeyPool : LoopMatch(getAddressFromKeypair(k))}
       IN  \E n \in RunLens(attempts, LoopCap), keypair \in KeyPool, other \in KeyPool :
        LET address == getAddressFromKeypair(keypair)
            count == attempts + n
        IN  /\ n > 1 => matching # KeyPool
            /\ attempts' = count
            /\ cbLog' = IF call.hasCb /\ count % BatchSize = 0
                        THEN Append(cbLog, count) ELSE cbLog
            /\ IF keypair \notin matching
               THEN UNCHANGED <<phase, result>>
               ELSE /\ phase' = "returned"
                    /\ result' = [address |-> address,
                                  privateKey |-> getPrivateKeyFromKeypair(other),
                                  publicKey |-> toBase58(keypair),
                                  attempts |-> count,
                                  keypair |-> keypair]
    /\ UNCHANGED <<twin, call, error, poolVars, workerVars, recv>>

\* one pass through the body of the do-while loop, and the return that
\* follows it when the condition ends the loop
SearchLoop ==
    /\ phase = "loop"
    /\ LET matching == {k \in KeyPool : LoopMatch(getAddressFromKeypair(k))}
       IN  \E n \in RunLens(attempts, LoopCap), keypair \in KeyPool :
        LET address == getAddressFromKeypair(keypair)
            count == attempts + n
        IN  /\ n > 1 => matching # KeyPool
            /\ attempts' = count
            /\ cbLog' = IF call.hasCb /\ count % BatchSize = 0
                        THEN Append(cbLog, count) ELSE cbLog
            /\ IF keypair \notin matching
               THEN UNCHANGED <<phase, result>>
               ELSE /\ phase' = "returned"
                    /\ result' = [address |-> address,
                                  privateKey |-> getPrivateKeyFromKeypair(keypair),
                                  publicKey |-> toBase58(keypair),
                                  attempts |-> count,
                                  keypair |-> keypair]
    /\ UNCHANGED <<twin, call, error, poolVars, workerVars, recv>>

----------------------------------------------------------------------------
(* wallet-generator.js: the pooled searches *)

\* an async function that throws: the promise it returned is rejected
ThrowAsync(name) ==
    /\ phase' = "thrown"
    /\ promise' = [state |-> "rejected", value |-> ErrorObj(name, 0)]
    /\ UNCHANGED <<numWorkers, workers, totalAttempts, resolved, wstatus>>

\* Executor that takes the number of CPUs whatever workerCount is
Executor_ignoresWorkerCount(workerCount) ==
    LET n == NumCpus
        passes == IF n > 0 THEN n ELSE 0
    IN  \E failAt \in 0..passes :
            LET spawned == IF failAt = 0 THEN passes ELSE failAt - 1
            IN  /\ phase' = "listening"
                /\ numWorkers' = n
                /\ totalAttempts' = 0
                /\ resolved' = FALSE
                /\ workers' = [k \in 1..spawned |-> k]
                /\ wstatus' = [w \in Workers |-> IF w <= spawned THEN "running" ELSE "none"]
                /\ promise' = IF failAt = 0 THEN Pending
                              ELSE reject(Pending, ErrorObj("SpawnFailure", failAt))

\* `new Promise((resolve, reject) => { ... })`: the executor runs to its end
\* in the same turn of the event loop.  `new Worker` throws in pass failAt
\* of the spawn loop (in no pass when failAt = 0); every earlier pass starts
\* a worker, registers its handlers and pushes it on `workers`
Executor(workerCount) ==
    LET n == IF workerCount.given /\ workerCount.n # 0 THEN workerCount.n ELSE NumCpus
        passes == IF n > 0 THEN n ELSE 0
    IN  \E failAt \in 0..passes :
            LET spawned == IF failAt = 0 THEN passes ELSE failAt - 1
            IN  /\ phase' = "listening"
                /\ numWorkers' = n
                /\ totalAttempts' = 0
                /\ resolved' = FALSE
                /\ workers' = [k \in 1..spawned |-> k]
                /\ wstatus' = [w \in Workers |-> IF w <= spawned THEN "running" ELSE "none"]
                /\ promise' = IF failAt = 0 THEN Pending
                              ELSE reject(Pending, ErrorObj("SpawnFailure", failAt))

generateVanityWalletMultiWorker ==
    /\ phase = "idle"
    /\ \E pattern \in PatternPool, workerCount \in WorkerCounts,
          caseSensitive \in BOOLEAN, hasCb \in BOOLEAN :
        /\ call' = Args("generateVanityWalletMultiWorker", pattern, <<>>, <<>>,
                        caseSensitive, workerCount, hasCb)
        /\ IF ~isValidPattern(pattern) THEN ThrowAsync("InvalidPattern")
           ELSE Executor(workerCount)
    /\ UNCHANGED <<twin, singleVars, wattempts, wkey, sent, terminated, recv>>

generateVanityWalletContainsMultiWorker ==
    /\ phase = "idle"
    /\ \E pattern \in PatternPool, workerCount \in WorkerCounts,
          caseSensitive \in BOOLEAN, hasCb \in BOOLEAN :
        /\ call' = Args("generateVanityWalletContainsMultiWorker", pattern, <<>>, <<>>,
                        caseSensitive, workerCount, hasCb)
        /\ IF ~isValidPattern(pattern) THEN ThrowAsync("InvalidPattern")
           ELSE Executor(workerCount)
    /\ UNCHANGED <<twin, singleVars, wattempts, wkey, sent, terminated, recv>>

generateVanityWalletStartEndMultiWorker ==
    /\ phase = "idle"
    /\ \E patterns \in StartEndPool, workerCount \in WorkerCounts, hasCb \in BOOLEAN :
        LET startPattern == patterns[1]
            endPattern == patterns[2]
            caseSensitive == patterns[3]
            e == StartEndCheck(startPattern, endPattern)
        IN  /\ call' = Args("generateVanityWalletStartEndMultiWorker", <<>>,
                            startPattern, endPattern, caseSensitive, workerCount, hasCb)
            /\ IF e # "none" THEN ThrowAsync(e) ELSE Executor(workerCount)
    /\ UNCHANGED <<twin, singleVars, wattempts, wkey, sent, terminated, recv>>

\* the workerData object the pooled function of call c gives worker number id
workerDataOf(c, id) ==
    CASE c.fn = "generateVanityWalletMultiWorker" ->
            [pattern |-> c.pattern, startPattern |-> <<>>, endPattern |-> <<>>,
             caseSensitive |-> c.caseSensitive, workerId |-> id,
             searchMode |-> "undefined"]
      [] c.fn = "generateVanityWalletContainsMultiWorker" ->
            [pattern |-> c.pattern, startPattern |-> <<>>, endPattern |-> <<>>,
             caseSensitive |-> c.caseSensitive, workerId |-> id,
             searchMode |-> "contains"]
      [] OTHER ->
            [pattern |-> <<>>, startPattern |-> c.startPattern,
             endPattern |-> c.endPattern,
             caseSensitive |-> c.caseSensitive, workerId |-> id,
             searchMode |-> "startEnd"]

workerData(id) == workerDataOf(call, id)

\* the event at the head of the queue of worker w
Head_(w) == sent[w][recv[w] + 1]

\* TerminateAll that stops at the first worker
TerminateAll_firstOnly ==
    [w \in Workers |-> terminated[w] \/ (Len(workers) > 0 /\ workers[1] = w)]

\* workers.forEach(w => w.terminate())
TerminateAll == [w \in Workers |-> terminated[w] \/ (\E k \in 1..Len(workers) : workers[k] = w)]

\* OnMessage without `if (resolved) return`
OnMessage_noResolvedGuard(w) ==
    /\ phase = "listening"
    /\ recv[w] < Len(sent[w])
    /\ Head_(w).kind # "error"
    /\ recv' = [recv EXCEPT ![w] = recv[w] + 1]
    /\ LET message == Head_(w)
       IN  IF message.kind = "success"
           THEN /\ resolved' = TRUE
                /\ terminated' = TerminateAll
                /\ promise' = resolve(promise,
                        [message EXCEPT !.totalAttempts = totalAttempts + message.attempts])
                /\ UNCHANGED <<totalAttempts, cbLog>>
           ELSE /\ totalAttempts' = totalAttempts + BatchSize
                /\ cbLog' = IF call.hasCb THEN Append(cbLog, totalAttempts + BatchSize)
                            ELSE cbLog
                /\ UNCHANGED <<resolved, terminated, promise>>
    /\ UNCHANGED <<twin, call, phase, error, attempts, result, numWorkers, workers,
                   wstatus, wattempts, wkey, sent>>

\* OnMessage that overwrites the winner's attempts with the global count
OnMessage_globalAttempts(w) ==
    /\ phase = "listening"
    /\ recv[w] < Len(sent[w])
    /\ Head_(w).kind # "error"
    /\ recv' = [recv EXCEPT ![w] = recv[w] + 1]
    /\ LET message == Head_(w)
       IN  IF resolved
           THEN UNCHANGED <<resolved, totalAttempts, terminated, promise, cbLog>>
           ELSE IF message.kind = "success"
           THEN /\ resolved' = TRUE
                /\ terminated' = TerminateAll
                /\ promise' = resolve(promise,
                        [message EXCEPT !.attempts = totalAttempts + message.attempts,
                                        !.totalAttempts = totalAttempts + message.attempts])
                /\ UNCHANGED <<totalAttempts, cbLog>>
           ELSE /\ totalAttempts' = totalAttempts + BatchSize
                /\ cbLog' = IF call.hasCb THEN Append(cbLog, totalAttempts + BatchSize)
                            ELSE cbLog
                /\ UNCHANGED <<resolved, terminated, promise>>
    /\ UNCHANGED <<twin, call, phase, error, attempts, result, numWorkers, workers,
                   wstatus, wattempts, wkey, sent>>

\* OnMessage that leaves the aggregate out of the result's totalAttempts
OnMessage_ownAttemptsOnly(w) ==
    /\ phase = "listening"
    /\ recv[w] < Len(sent[w])
    /\ Head_(w).kind # "error"
    /\ recv' = [recv EXCEPT ![w] = recv[w] + 1]
    /\ LET message == Head_(w)
       IN  IF resolved
           THEN UNCHANGED <<resolved, totalAttempts, terminated, promise, cbLog>>
           ELSE IF message.kind = "success"
           THEN /\ resolved' = TRUE
                /\ terminated' = TerminateAll
                /\ promise' = resolve(promise,
                        [message EXCEPT !.totalAttempts = message.attempts])
                /\ UNCHANGED <<totalAttempts, cbLog>>
           ELSE /\ totalAttempts' = totalAttempts + BatchSize
                /\ cbLog' = IF call.hasCb THEN Append(cbLog, totalAttempts + BatchSize)
                            ELSE cbLog
                /\ UNCHANGED <<resolved, terminated, promise>>
    /\ UNCHANGED <<twin, call, phase, error, attempts, result, numWorkers, workers,
                   wstatus, wattempts, wkey, sent>>

\* OnMessage that resolves with the posted success message of fewest attempts
OnMessage_fewestAttempts(w) ==
    /\ phase = "listening"
    /\ recv[w] < Len(sent[w])
    /\ Head_(w).kind # "error"
    /\ recv' = [recv EXCEPT ![w] = recv[w] + 1]
    /\ LET message == Head_(w)
           posted == {sent[v][Len(sent[v])] : v \in {u \in Workers : wstatus[u] = "done"}}
           best == CHOOSE m \in posted : \A o \in posted : m.attempts <= o.attempts
       IN  IF resolved
           THEN UNCHANGED <<resolved, totalAttempts, terminated, promise, cbLog>>
           ELSE IF message.kind = "success"
           THEN /\ resolved' = TRUE
                /\ terminated' = TerminateAll
                /\ promise' = resolve(promise,
                        [best EXCEPT !.totalAttempts = totalAttempts + best.attempts])
                /\ UNCHANGED <<totalAttempts, cbLog>>
           ELSE /\ totalAttempts' = totalAttempts + BatchSize
                /\ cbLog' = IF call.hasCb THEN Append(cbLog, totalAttempts + BatchSize)
                            ELSE cbLog
                /\ UNCHANGED <<resolved, terminated, promise>>
    /\ UNCHANGED <<twin, call, phase, error, attempts, result, numWorkers, workers,
                   wstatus, wattempts, wkey, sent>>

\* OnMessage that takes the attempts carried by a progress message as the
\* aggregate
OnMessage_takesReported(w) ==
    /\ phase = "listening"
    /\ recv[w] < Len(sent[w])
    /\ Head_(w).kind # "error"
    /\ recv' = [recv EXCEPT ![w] = recv[w] + 1]
    /\ LET message == Head_(w)
       IN  IF resolved
           THEN UNCHANGED <<resolved, totalAttempts, terminated, promise, cbLog>>
           ELSE IF message.kind = "success"
           THEN /\ resolved' = TRUE
                /\ terminated' = TerminateAll
                /\ promise' = resolve(promise,
                        [message EXCEPT !.totalAttempts = totalAttempts + message.attempts])
                /\ UNCHANGED <<totalAttempts, cbLog>>
           ELSE IF message.kind = "progress"
           THEN /\ totalAttempts' = message.attempts
                /\ cbLog' = IF call.hasCb THEN Append(cbLog, message.attempts)
                            ELSE cbLog
                /\ UNCHANGED <<resolved, terminated, promise>>
           ELSE UNCHANGED <<resolved, totalAttempts, terminated, promise, cbLog>>
    /\ UNCHANGED <<twin, call, phase, error, attempts, result, numWorkers, workers,
                   wstatus, wattempts, wkey, sent>>

\* OnMessage that counts a progress message only when there is a callback
OnMessage_countsForCallback(w) ==
    /\ phase = "listening"
    /\ recv[w] < Len(sent[w])
    /\ Head_(w).kind # "error"
    /\ recv' = [recv EXCEPT ![w] = recv[w] + 1]
    /\ LET message == Head_(w)
       IN  IF resolved
           THEN UNCHANGED <<resolved, totalAttempts, terminated, promise, cbLog>>
           ELSE IF message.kind = "success"
           THEN /\ resolved' = TRUE
                /\ terminated' = TerminateAll
                /\ promise' = resolve(promise,
                        [message EXCEPT !.totalAttempts = totalAttempts + message.attempts])
                /\ UNCHANGED <<totalAttempts, cbLog>>
           ELSE IF message.kind = "progress" /\ call.hasCb
           THEN /\ totalAttempts' = totalAttempts + BatchSize
                /\ cbLog' = Append(cbLog, totalAttempts + BatchSize)
                /\ UNCHANGED <<resolved, terminated, promise>>
           ELSE UNCHANGED <<resolved, totalAttempts, terminated, promise, cbLog>>
    /\ UNCHANGED <<twin, call, phase, error, attempts, result, numWorkers, workers,
                   wstatus, wattempts, wkey, sent>>

\* worker.on('message', ...) of worker w, run on the next message of w
OnMessage(w) ==
    /\ phase = "listening"
    /\ recv[w] < Len(sent[w])
    /\ Head_(w).kind # "error"
    /\ recv' = [recv EXCEPT ![w] = recv[w] + 1]
    /\ LET message == Head_(w)
       IN  IF resolved
           THEN UNCHANGED <<resolved, totalAttempts, terminated, promise, cbLog>>
           ELSE IF message.kind = "success"
           THEN /\ resolved' = TRUE
                /\ terminated' = TerminateAll
                /\ promise' = resolve(promise,
                        [message EXCEPT !.totalAttempts = totalAttempts + message.attempts])
                /\ UNCHANGED <<totalAttempts, cbLog>>
           ELSE IF message.kind = "progress"
           THEN /\ totalAttempts' = totalAttempts + BatchSize
                /\ cbLog' = IF call.hasCb THEN Append(cbLog, totalAttempts + BatchSize)
                            ELSE cbLog
                /\ UNCHANGED <<resolved, terminated, promise>>
           ELSE UNCHANGED <<resolved, totalAttempts, terminated, promise, cbLog>>
    /\ UNCHANGED <<twin, call, phase, error, attempts, result, numWorkers, workers,
                   wstatus, wattempts, wkey, sent>>

\* worker.on('error', ...) of worker w, run on the error event of w
OnError(w) ==
    /\ phase = "listening"
    /\ recv[w] < Len(sent[w])
    /\ Head_(w).kind = "error"
    /\ recv' = [recv EXCEPT ![w] = recv[w] + 1]
    /\ promise' = IF ~resolved THEN reject(promise, ErrorObj("WorkerError", w))
                  ELSE promise
    /\ UNCHANGED <<twin, call, phase, singleVars, numWorkers, workers, totalAttempts,
                   resolved, workerVars>>

----------------------------------------------------------------------------
(* worker.js *)

Message(kind, w, n, keypair) ==
    [kind |-> kind,
     address |-> IF keypair = 0 THEN <<>> ELSE getAddressFromKeypair(keypair),
     privateKey |-> IF keypair = 0 THEN <<>> ELSE getPrivateKeyFromKeypair(keypair),
     publicKey |-> IF keypair = 0 THEN <<>> ELSE toBase58(keypair),
     attempts |-> n,
     workerId |-> w,
     totalAttempts |-> 0]

\* `searchMode = 'startsWith'` of the destructuring of workerData
SearchModeOf(d) == IF d.searchMode = "undefined" THEN "startsWith" ELSE d.searchMode

\* IsMatch that always takes the default (startsWith) branch
IsMatch_ignoresMode(d, address) ==
    worker_matchesPattern(address, d.pattern, d.caseSensitive)

\* the mode dispatch of the loop body
IsMatch(d, address) ==
    IF SearchModeOf(d) = "startEnd"
    THEN worker_matchesStartEndPattern(address, d.startPattern, d.endPattern,
                                       d.caseSensitive)
    ELSE IF SearchModeOf(d) = "contains"
    THEN worker_containsPattern(address, d.pattern, d.caseSensitive)
    ELSE worker_matchesPattern(address, d.pattern, d.caseSensitive)

\* every workerData a call of the model can produce, without the workerId
Searches ==
    {[searchMode |-> m, pattern |-> p, startPattern |-> <<>>, endPattern |-> <<>>,
      caseSensitive |-> c] :
        m \in {"undefined", "contains"}, p \in PatternPool, c \in BOOLEAN}
    \cup
    {[searchMode |-> "startEnd", pattern |-> <<>>, startPattern |-> q[1],
      endPattern |-> q[2], caseSensitive |-> q[3]] : q \in StartEndPool}

\* the keypairs of KeyPool whose address the loop body finds to match
MatchingKeys ==
    [d \in Searches |-> {k \in KeyPool : IsMatch(d, getAddressFromKeypair(k))}]

SearchOf(d) ==
    [searchMode |-> d.searchMode, pattern |-> d.pattern,
     startPattern |-> d.startPattern, endPattern |-> d.endPattern,
     caseSensitive |-> d.caseSensitive]

\* WorkerLoop that goes on with its loop after it posted a success
WorkerLoop_noBreak(w) ==
    /\ wstatus[w] = "running"
    /\ ~terminated[w]
    /\ LET matching == MatchingKeys[SearchOf(workerData(w))]
       IN  \E n \in RunLens(wattempts[w], WorkerCap), keypair \in KeyPool :
        LET count == wattempts[w] + n
            isMatch == keypair \in matching
        IN  /\ n > 1 => matching # KeyPool
            /\ wattempts' = [wattempts EXCEPT ![w] = count]
            /\ IF isMatch
               THEN /\ sent' = [sent EXCEPT ![w] =
                            Append(@, Message("success", workerData(w).workerId, count, keypair))]
                    /\ wkey' = [wkey EXCEPT ![w] = keypair]
                    /\ UNCHANGED wstatus
               ELSE /\ sent' = IF count % BatchSize = 0
                               THEN [sent EXCEPT ![w] =
                                       Append(@, Message("progress", workerData(w).workerId, count, 0))]
                               ELSE sent
                    /\ UNCHANGED <<wstatus, wkey>>
    /\ UNCHANGED <<twin, call, phase, singleVars, poolVars, recv, terminated>>

\* one pass through the body of `while (true)` in worker w
WorkerLoop(w) ==
    /\ wstatus[w] = "running"
    /\ ~terminated[w]
    /\ LET matching == MatchingKeys[SearchOf(workerData(w))]
       IN  \E n \in RunLens(wattempts[w], WorkerCap), keypair \in KeyPool :
        LET count == wattempts[w] + n
            isMatch == keypair \in matching
        IN  /\ n > 1 => matching # KeyPool
            /\ wattempts' = [wattempts EXCEPT ![w] = count]
            /\ IF isMatch
               THEN /\ sent' = [sent EXCEPT ![w] =
                            Append(@, Message("success", workerData(w).workerId, count, keypair))]
                    /\ wstatus' = [wstatus EXCEPT ![w] = "done"]
                    /\ wkey' = [wkey EXCEPT ![w] = keypair]
               ELSE /\ sent' = IF count % BatchSize = 0
                               THEN [sent EXCEPT ![w] =
                                       Append(@, Message("progress", workerData(w).workerId, count, 0))]
                               ELSE sent
                    /\ UNCHANGED <<wstatus, wkey>>
    /\ UNCHANGED <<twin, call, phase, singleVars, poolVars, recv, terminated>>

\* an exception escapes the worker's code: the thread ends and the main
\* thread is sent an 'error' event
WorkerThrows(w) ==
    /\ wstatus[w] = "running"
    /\ ~terminated[w]
    /\ wstatus' = [wstatus EXCEPT ![w] = "crashed"]
    /\ wattempts' = [wattempts EXCEPT ![w] = 0]
    /\ sent' = [sent EXCEPT ![w] = Append(@, Message("error", w, 0, 0))]
    /\ UNCHANGED <<twin, call, phase, singleVars, poolVars, wkey, recv, terminated>>

----------------------------------------------------------------------------

Next ==
    \/ generateVanityWallet
    \/ generateVanityWalletContains
    \/ generateVanityWalletStartEnd
    \/ SearchLoop
    \/ generateVanityWalletMultiWorker
    \/ generateVanityWalletContainsMultiWorker
    \/ generateVanityWalletStartEndMultiWorker
    \/ \E w \in Workers : OnMessage(w)
    \/ \E w \in Workers : OnError(w)
    \/ \E w \in Workers : WorkerLoop(w)
    \/ \E w \in Workers : WorkerThrows(w)

Spec == Init /\ [][Next]_vars

\* The scheduling of a pooled search: Node's event loop runs the handler of
\* every queued message and error event, and a worker thread that is running
\* keeps executing its loop.  Nothing obliges a caller to start a search or a
\* worker to throw.
Fairness ==
    \A w \in Workers :
        /\ WF_vars(OnMessage(w))
        /\ WF_vars(OnError(w))
        /\ WF_vars(WorkerLoop(w))

SpecFair == Init /\ [][Next]_vars /\ Fairness

\* Two executions of one search, one called with a progress callback and one
\* without, given the same candidates and the same order of delivery.  The
\* variables hold one execution and twin.state the other.  The first takes a
\* step of the program; the two change places; the second takes the step of
\* the program that brings it where the first is, the callback and its calls
\* left aside; and they change places again.

\* the state of the execution held in the variables
State ==
    [call |-> call, phase |-> phase, error |-> error, attempts |-> attempts,
     result |-> result, cbLog |-> cbLog, numWorkers |-> numWorkers,
     workers |-> workers, totalAttempts |-> totalAttempts, resolved |-> resolved,
     promise |-> promise, wstatus |-> wstatus, wattempts |-> wattempts,
     wkey |-> wkey, sent |-> sent, recv |-> recv, terminated |-> terminated]

\* a state without what the callback is: the argument and its invocations
Erase(s) ==
    [s EXCEPT !.cbLog = <<>>,
              !.call = IF "hasCb" \in DOMAIN s.call
                       THEN [s.call EXCEPT !.hasCb = FALSE] ELSE s.call]

InStep == Erase(State) = Erase(twin.state)

\* the first execution takes a step
LeadStep ==
    /\ ~twin.swapped
    /\ InStep
    /\ Next

\* the two executions change places
Swap ==
    /\ twin.swapped <=> InStep
    /\ twin' = [swapped |-> ~twin.swapped, state |-> State]
    /\ call' = twin.state.call
    /\ phase' = twin.state.phase
    /\ error' = twin.state.error
    /\ attempts' = twin.state.attempts
    /\ result' = twin.state.result
    /\ cbLog' = twin.state.cbLog
    /\ numWorkers' = twin.state.numWorkers
    /\ workers' = twin.state.workers
    /\ totalAttempts' = twin.state.totalAttempts
    /\ resolved' = twin.state.resolved
    /\ promise' = twin.state.promise
    /\ wstatus' = twin.state.wstatus
    /\ wattempts' = twin.state.wattempts
    /\ wkey' = twin.state.wkey
    /\ sent' = twin.state.sent
    /\ recv' = twin.state.recv
    /\ terminated' = twin.state.terminated

\* the second execution, called with a callback iff the first was not, takes
\* the step that the same candidate and the same delivery make it take
FollowStep ==
    /\ twin.swapped
    /\ ~InStep
    /\ Next
    /\ call'.hasCb = ~twin.state.call.hasCb
    /\ Erase(State)' = Erase(twin.state)

NextTwin ==
    \/ LeadStep
    \/ Swap
    \/ FollowStep

SpecTwin == Init /\ [][NextTwin]_vars

----------------------------------------------------------------------------
(* The single-threaded searches over a fixed keypair source: generateKeypair *)
(* returns the keypairs of a given sequence, one per call.                   *)

\* longest candidate sequence explored
MaxSourceLen == 3

\* the candidate sequences
Sources == UNION {[1..n -> KeyPool] : n \in 1..MaxSourceLen}

\* calls of the three single-threaded entry points, each with its source
SourceCalls ==
    {[fn |-> fn, pattern |-> pattern, startPattern |-> <<>>, endPattern |-> <<>>,
      caseSensitive |-> caseSensitive, workerCount |-> NoCount, hasCb |-> FALSE,
      source |-> source] :
        fn \in {"generateVanityWallet", "generateVanityWalletContains"},
        pattern \in PatternPool, caseSensitive \in BOOLEAN, source \in Sources}
    \cup
    {[fn |-> "generateVanityWalletStartEnd", pattern |-> <<>>,
      startPattern |-> q[1], endPattern |-> q[2], caseSensitive |-> q[3],
      workerCount |-> NoCount, hasCb |-> FALSE, source |-> source] :
        q \in StartEndPool, source \in Sources}

InitOverSource ==
    /\ call \in SourceCalls
    /\ phase = "idle"
    /\ error = "none"
    /\ attempts = 0
    /\ result = NoResult
    /\ cbLog = <<>>
    /\ numWorkers = 0
    /\ workers = <<>>
    /\ totalAttempts = 0
    /\ resolved = FALSE
    /\ promise = [state |-> "none", value |-> ErrorObj("none", 0)]
    /\ wstatus = [w \in Workers |-> "none"]
    /\ wattempts = [w \in Workers |-> 0]
    /\ wkey = [w \in Workers |-> 0]
    /\ sent = [w \in Workers |-> <<>>]
    /\ recv = [w \in Workers |-> 0]
    /\ terminated = [w \in Workers |-> FALSE]
    /\ twin = NoTwin

\* the checks of the called entry point, up to the entry into its loop
EnterOverSource ==
    /\ phase = "idle"
    /\ LET e == IF call.fn = "generateVanityWalletStartEnd"
                THEN StartEndCheck(call.startPattern, call.endPattern)
                ELSE IF ~isValidPattern(call.pattern) THEN "InvalidPattern"
                ELSE "none"
       IN  IF e # "none" THEN Throw(e) ELSE EnterLoop
    /\ UNCHANGED <<twin, call, poolVars, workerVars, recv>>

\* SearchLoopOverSource that returns the count before its increment
SearchLoopOverSource_countBeforeIncrement ==
    /\ phase = "loop"
    /\ attempts < Len(call.source)
    /\ LET keypair == call.source[attempts + 1]
           address == getAddressFromKeypair(keypair)
           count == attempts + 1
       IN  /\ attempts' = count
           /\ cbLog' = IF call.hasCb /\ count % BatchSize = 0
                       THEN Append(cbLog, count) ELSE cbLog
           /\ IF ~LoopMatch(address)
              THEN UNCHANGED <<phase, result>>
              ELSE /\ phase' = "returned"
                   /\ result' = [address |-> address,
                                 privateKey |-> getPrivateKeyFromKeypair(keypair),
                                 publicKey |-> toBase58(keypair),
                                 attempts |-> attempts,
                                 keypair |-> keypair]
    /\ UNCHANGED <<twin, call, error, poolVars, workerVars, recv>>

\* SearchLoopOverSource that gives up at its second iteration and returns the
\* candidate it has
SearchLoopOverSource_iterationLimit ==
    /\ phase = "loop"
    /\ attempts < Len(call.source)
    /\ LET keypair == call.source[attempts + 1]
           address == getAddressFromKeypair(keypair)
           count == attempts + 1
       IN  /\ attempts' = count
           /\ cbLog' = IF call.hasCb /\ count % BatchSize = 0
                       THEN Append(cbLog, count) ELSE cbLog
           /\ IF ~LoopMatch(address) /\ count < 2
              THEN UNCHANGED <<phase, result>>
              ELSE /\ phase' = "returned"
                   /\ result' = [address |-> address,
                                 privateKey |-> getPrivateKeyFromKeypair(keypair),
                                 publicKey |-> toBase58(keypair),
                                 attempts |-> count,
                                 keypair |-> keypair]
    /\ UNCHANGED <<twin, call, error, poolVars, workerVars, recv>>

\* one pass through the body of the do-while loop, the keypair being the next
\* one of the source, and the return that follows it when the loop ends
SearchLoopOverSource ==
    /\ phase = "loop"
    /\ attempts < Len(call.source)
    /\ LET keypair == call.source[attempts + 1]
           address == getAddressFromKeypair(keypair)
           count == attempts + 1
       IN  /\ attempts' = count
           /\ cbLog' = IF call.hasCb /\ count % BatchSize = 0
                       THEN Append(cbLog, count) ELSE cbLog
           /\ IF ~LoopMatch(address)
              THEN UNCHANGED <<phase, result>>
              ELSE /\ phase' = "returned"
                   /\ result' = [address |-> address,
                                 privateKey |-> getPrivateKeyFromKeypair(keypair),
                                 publicKey |-> toBase58(keypair),
                                 attempts |-> count,
                                 keypair |-> keypair]
    /\ UNCHANGED <<twin, call, error, poolVars, workerVars, recv>>

NextOverSource ==
    \/ EnterOverSource
    \/ SearchLoopOverSource

SpecOverSource == InitOverSource /\ [][NextOverSource]_vars

----------------------------------------------------------------------------
(* The pure functions of wallet-generator.js, each applied to arguments     *)
(* drawn from small sets of strings                                         *)

\* longest address of a matcher call
MaxAddressLen == 3
\* longest pattern of a matcher call
MaxPatternLen == 2

\* the strings of at most n characters of chars
Strings(chars, n) == UNION {[1..k -> chars] : k \in 0..n}

\* two letters, one of them in both cases
Letters == {Ch.A, Ch.a, Ch.B}

\* an alphabet character of each kind, and the characters 0, I, O, l that
\* base58 leaves out
ClassProbes == {Ch.one, Ch.A, Ch.z, 48, 73, 79, 108}

InitPure ==
    /\ \/ \E fn \in {"matchesPattern", "containsPattern"},
             address \in Strings(Letters, MaxAddressLen),
             pattern \in Strings(Letters, MaxPatternLen),
             caseSensitive \in BOOLEAN :
            call = [fn |-> fn, address |-> address, pattern |-> pattern,
                    caseSensitive |-> caseSensitive]
       \/ \E address \in Strings(Letters, MaxAddressLen),
             startPattern \in Strings(Letters, MaxPatternLen) \cup {<<Ch.sp>>},
             endPattern \in Strings(Letters, MaxPatternLen) \cup {<<Ch.sp>>},
             caseSensitive \in BOOLEAN :
            call = [fn |-> "matchesStartEndPattern", address |-> address,
                    startPattern |-> startPattern, endPattern |-> endPattern,
                    caseSensitive |-> caseSensitive]
       \/ \E pattern \in Strings(ClassProbes, MaxPatternLen) \cup {<<c>> : c \in 0..127} :
            call = [fn |-> "isValidPattern", pattern |-> pattern]
       \/ \E pattern \in Strings(Letters, MaxPatternLen)
                            \cup {Rep(Ch.A, n) : n \in 0..(MaxPatternLen + 2)},
             caseSensitive \in BOOLEAN :
            call = [fn |-> "estimateAttempts", pattern |-> pattern,
                    caseSensitive |-> caseSensitive]
       \/ \E address \in Strings(Letters, MaxAddressLen) \cup {<<c>> : c \in 0..127} :
            call = [fn |-> "isAllUppercase", address |-> address]
       \/ call = [fn |-> "calculateProbability"]
    /\ phase = "idle"
    /\ error = "none"
    /\ attempts = 0
    /\ result = NoResult
    /\ cbLog = <<>>
    /\ numWorkers = 0
    /\ workers = <<>>
    /\ totalAttempts = 0
    /\ resolved = FALSE
    /\ promise = [state |-> "none", value |-> ErrorObj("none", 0)]
    /\ wstatus = [w \in Workers |-> "none"]
    /\ wattempts = [w \in Workers |-> 0]
    /\ wkey = [w \in Workers |-> 0]
    /\ sent = [w \in Workers |-> <<>>]
    /\ recv = [w \in Workers |-> 0]
    /\ terminated = [w \in Workers |-> FALSE]
    /\ twin = NoTwin

\* the called function returns value
Return(value) ==
    /\ phase' = "returned"
    /\ result' = [value |-> value]
    /\ UNCHANGED <<twin, call, error, attempts, cbLog, poolVars, workerVars, recv>>

Apply_matchesPattern ==
    /\ phase = "idle"
    /\ call.fn = "matchesPattern"
    /\ Return(matchesPattern(call.address, call.pattern, call.caseSensitive))

Apply_containsPattern ==
    /\ phase = "idle"
    /\ call.fn = "containsPattern"
    /\ Return(containsPattern(call.address, call.pattern, call.caseSensitive))

Apply_matchesStartEndPattern ==
    /\ phase = "idle"
    /\ call.fn = "matchesStartEndPattern"
    /\ Return(matchesStartEndPattern(call.address, call.startPattern, call.endPattern,
                                     call.caseSensitive))

Apply_isValidPattern ==
    /\ phase = "idle"
    /\ call.fn = "isValidPattern"
    /\ Return(isValidPattern(call.pattern))

Apply_estimateAttempts ==
    /\ phase = "idle"
    /\ call.fn = "estimateAttempts"
    /\ Return(estimateAttempts(call.pattern, call.caseSensitive))

(* The all-uppercase analysis script (src/unnamed/part_000) *)

\* the character class of the regular expression uppercaseBase58:
\* ABCDEFGHJKLMNPQRSTUVWXYZ
uppercaseBase58 == (65..72) \cup (74..78) \cup (80..90)

\* /^[ABCDEFGHJKLMNPQRSTUVWXYZ]+$/.test(address)
isAllUppercase(address) ==
    /\ Len(address) >= 1
    /\ \A j \in 1..Len(address) : address[j] \in uppercaseBase58

totalBase58Chars == 58
uppercaseBase58Chars == 23
addressLength == 44

\* calculateProbability returns 1 / (uppercaseBase58Chars / totalBase58Chars)
\* ^ addressLength, a floating-point number beyond the integers: it is kept
\* as the three numbers it is computed from
calculateProbability ==
    [uppercase |-> uppercaseBase58Chars, total |-> totalBase58Chars,
     length |-> addressLength]

Apply_isAllUppercase ==
    /\ phase = "idle"
    /\ call.fn = "isAllUppercase"
    /\ Return(isAllUppercase(call.address))

Apply_calculateProbability ==
    /\ phase = "idle"
    /\ call.fn = "calculateProbability"
    /\ Return(calculateProbability)

NextPure ==
    \/ Apply_matchesPattern
    \/ Apply_containsPattern
    \/ Apply_matchesStartEndPattern
    \/ Apply_isValidPattern
    \/ Apply_estimateAttempts
    \/ Apply_isAllUppercase
    \/ Apply_calculateProbability

SpecPure == InitPure /\ [][NextPure]_vars

----------------------------------------------------------------------------
(* Vocabulary of the properties, stated on the characters and independent  *)
(* of the JavaScript string functions above                                *)

\* the 58 characters 123456789ABCDEFGHJKLMNPQRSTUVWXYZabcdefghijkmnopqrstuvwxyz
Alphabet58 ==
    {49, 50, 51, 52, 53, 54, 55, 56, 57,
     65, 66, 67, 68, 69, 70, 71, 72, 74, 75, 76, 77, 78,
     80, 81, 82, 83, 84, 85, 86, 87, 88, 89, 90,
     97, 98, 99, 100, 101, 102, 103, 104, 105, 106, 107,
     109, 110, 111, 112, 113, 114, 115, 116, 117, 118, 119, 120, 121, 122}

InAlphabet(p) == \A j \in 1..Len(p) : p[j] \in Alphabet58

\* empty, or white space only
Blank(p) == \A j \in 1..Len(p) : p[j] = Ch.sp

Folded(str, caseSensitive) ==
    IF caseSensitive THEN str
    ELSE [j \in 1..Len(str) |->
            IF str[j] >= Ch.A /\ str[j] <= Ch.Z THEN str[j] + (Ch.a - Ch.A) ELSE str[j]]

IsPrefixOf(p, a) ==
    Len(p) <= Len(a) /\ \A j \in 1..Len(p) : a[j] = p[j]

IsSuffixOf(p, a) ==
    Len(p) <= Len(a) /\ \A j \in 1..Len(p) : a[Len(a) - Len(p) + j] = p[j]

OccursIn(p, a) ==
    \E off \in 0..(Len(a) - Len(p)) : \A j \in 1..Len(p) : a[off + j] = p[j]

SingleFns ==
    {"generateVanityWallet", "generateVanityWalletContains",
     "generateVanityWalletStartEnd"}

PooledFns ==
    {"generateVanityWalletMultiWorker", "generateVanityWalletContainsMultiWorker",
     "generateVanityWalletStartEndMultiWorker"}

StartEndFns ==
    {"generateVanityWalletStartEnd", "generateVanityWalletStartEndMultiWorker"}

\* the pattern predicate of the search that was started
Satisfies(c, address) ==
    LET a == Folded(address, c.caseSensitive)
        pat == Folded(c.pattern, c.caseSensitive)
        start == Folded(c.startPattern, c.caseSensitive)
        end == Folded(c.endPattern, c.caseSensitive)
    IN  CASE c.fn \in {"generateVanityWallet", "generateVanityWalletMultiWorker"} ->
                IsPrefixOf(pat, a)
          [] c.fn \in {"generateVanityWalletContains",
                       "generateVanityWalletContainsMultiWorker"} ->
                OccursIn(pat, a)
          [] c.fn \in StartEndFns ->
                /\ Blank(c.startPattern) \/ IsPrefixOf(start, a)
                /\ Blank(c.endPattern) \/ IsSuffixOf(end, a)
          [] OTHER -> FALSE

\* the entry point failed with an error
Rejected ==
    /\ phase = "thrown"
    /\ IF call.fn \in PooledFns THEN promise.state = "rejected" ELSE error # "none"

\* the entry point passed its checks and started the search
Accepted == phase \in {"loop", "returned", "listening"}

\* nothing was generated, reported or spawned
NoWorkDone ==
    /\ attempts = 0
    /\ result = NoResult
    /\ cbLog = <<>>
    /\ workers = <<>>
    /\ \A w \in Workers : wstatus[w] = "none" /\ wattempts[w] = 0 /\ sent[w] = <<>>

Spawned == {w \in Workers : wstatus[w] # "none"}

Settled == promise.state \in {"fulfilled", "rejected"}

\* this step is the main thread handling the next event of worker w
Handles(w) == recv'[w] = recv[w] + 1

LastSent(w) == sent[w][Len(sent[w])]

----------------------------------------------------------------------------
(* C1: the address of every returned result, of a single-threaded search   *)
(* and of a pooled one, satisfies the pattern predicate (prefix, substring *)
(* or prefix+suffix, with the requested case sensitivity) the search was   *)
(* started with.                                                           *)
C1_ResultSatisfiesPattern ==
    /\ phase = "returned" => Satisfies(call, result.address)
    /\ promise.state = "fulfilled" => Satisfies(call, promise.value.address)

\* a pooled case-insensitive prefix+suffix search of two workers resolved
\* with the lower-case address
C1_Witness ==
    /\ call.fn = "generateVanityWalletStartEndMultiWorker"
    /\ ~call.caseSensitive
    /\ Len(workers) = 2
    /\ promise.state = "fulfilled"
    /\ promise.value.address = AddressTable[2]

(* C2: the promise of a pooled search is settled at most once; handling a  *)
(* success message while it is pending fulfils it; and the value it is     *)
(* fulfilled with is the first success message delivered, carrying that    *)
(* worker's id, its address and keys and its own iteration count.          *)
C2_ResolvesOnceWithFirstSuccess ==
    [][ /\ Settled => promise' = promise
        /\ \A w \in Workers :
             (promise.state = "pending" /\ Handles(w) /\ Head_(w).kind = "success")
                => promise'.state = "fulfilled"
        /\ (promise.state = "pending" /\ promise'.state = "fulfilled") =>
             \E w \in Workers :
                /\ Handles(w)
                /\ Head_(w).kind = "success"
                /\ \A v \in Workers : \A j \in 1..recv[v] : sent[v][j].kind # "success"
                /\ promise'.value.workerId = w
                /\ promise'.value.attempts = wattempts[w]
                /\ promise'.value.attempts = Head_(w).attempts
                /\ promise'.value.address = getAddressFromKeypair(wkey[w])
                /\ promise'.value.publicKey = toBase58(wkey[w])
                /\ promise'.value.privateKey = getPrivateKeyFromKeypair(wkey[w])
      ]_vars

\* worker 2 won after its own progress report, while worker 1 had found a
\* match too
C2_Witness ==
    /\ promise.state = "fulfilled"
    /\ promise.value.workerId = 2
    /\ promise.value.attempts = BatchSize + 1
    /\ totalAttempts > 0
    /\ wstatus[1] = "done"

(* C3: once the coordinator has resolved, every later message and every    *)
(* later worker error leaves the resolved flag, the promise (the result    *)
(* and its totalAttempts), the aggregate counter and the progress callback *)
(* untouched.                                                              *)
C3_IgnoredAfterResolved ==
    [][ resolved =>
            /\ resolved'
            /\ promise' = promise
            /\ totalAttempts' = totalAttempts
            /\ cbLog' = cbLog
      ]_vars

\* every event of a worker other than the winner has been handled, a progress
\* message and then a success message or an error, and the aggregate is still
\* 0: they were handled after the resolution
C3_Witness ==
    /\ promise.state = "fulfilled"
    /\ \E w \in Workers :
        /\ w # promise.value.workerId
        /\ Len(sent[w]) > 0
        /\ recv[w] = Len(sent[w])
        /\ LastSent(w).kind \in {"success", "error"}
        /\ totalAttempts = 0
        /\ Len(sent[w]) = 2

(* C4: the step that handles the first success message calls terminate()   *)
(* on every spawned worker, also on a worker whose own success message has *)
(* not been read yet.                                                      *)
C4_FirstSuccessTerminatesAll ==
    [][ (~resolved /\ resolved') =>
            /\ \A w \in Spawned : terminated'[w]
            /\ \A k \in 1..Len(workers) : terminated'[workers[k]]
      ]_vars

\* a terminated worker other than the winner holds an unread success message
C4_Witness ==
    /\ resolved
    /\ promise.state = "fulfilled"
    /\ \E w \in Spawned :
        /\ w # promise.value.workerId
        /\ terminated[w]
        /\ recv[w] < Len(sent[w])
        /\ LastSent(w).kind = "success"

(* C5: when a worker's error is handled while no success has been          *)
(* recorded, the promise is rejected with that error and every other       *)
(* worker is terminated in the handling of the error.                      *)
C5_ErrorRejectsAndCancels ==
    [][ \A w \in Workers :
            (Handles(w) /\ Head_(w).kind = "error" /\ ~resolved) =>
                /\ promise'.state = "rejected"
                /\ promise'.value = ErrorObj("WorkerError", w)
                /\ \A v \in Spawned \ {w} : terminated'[v]
      ]_vars

(* C6: when creating the i-th worker fails, the search is rejected with    *)
(* that error, no further worker is spawned, and the workers 1..i-1        *)
(* already spawned are cancelled.                                          *)
C6_SpawnFailureCancelsSpawned ==
    (promise.state = "rejected" /\ promise.value.name = "SpawnFailure") =>
        /\ Spawned = 1..(promise.value.worker - 1)
        /\ Len(workers) = promise.value.worker - 1
        /\ \A w \in Spawned : terminated[w]

(* C7: Resolved and Failed are terminal and exclude each other, Resolved   *)
(* is entered at most once, a coordinator that has failed never records a  *)
(* winner afterwards, and in every terminal state every spawned worker has *)
(* been issued termination.                                                *)
C7_CoordinatorStateMachine ==
    [][ /\ Settled => promise' = promise
        /\ resolved => resolved'
        /\ promise.state = "rejected" => resolved' = resolved
        /\ promise'.state \in {"fulfilled", "rejected"}
             => \A w \in Workers : wstatus'[w] # "none" => terminated'[w]
      ]_vars

\* a field of the call that is present and holds a character outside the
\* alphabet, or a single pattern that is empty
FailsValidation(c) ==
    IF c.fn \in StartEndFns
    THEN \/ ~Blank(c.startPattern) /\ ~InAlphabet(c.startPattern)
         \/ ~Blank(c.endPattern) /\ ~InAlphabet(c.endPattern)
    ELSE c.pattern = <<>> \/ ~InAlphabet(c.pattern)

(* C8: when the pattern fails validation (a single pattern that is empty   *)
(* or holds a character outside the 58-character alphabet; a present       *)
(* prefix or suffix that holds such a character), the entry point fails    *)
(* with an error and no keypair is generated, no progress callback is      *)
(* invoked and no worker is spawned.                                       *)
C8_InvalidPatternDoesNoWork ==
    (call.fn # "none" /\ FailsValidation(call)) => (Rejected /\ NoWorkDone)

\* the pooled substring search called with the pattern "0"
C8_Witness ==
    /\ call.fn = "generateVanityWalletContainsMultiWorker"
    /\ call.pattern = <<Ch.zero>>
    /\ call.workerCount.n = MaxWorkers
    /\ Rejected

(* C9 as claimed: a prefix+suffix search with both fields empty is         *)
(* rejected before any work; one with exactly one field empty and the      *)
(* other valid is accepted.                                                *)
C9_Original ==
    call.fn \in StartEndFns =>
        /\ (call.startPattern = <<>> /\ call.endPattern = <<>>)
              => (Rejected /\ NoWorkDone)
        /\ (call.startPattern = <<>> /\ call.endPattern # <<>>
              /\ InAlphabet(call.endPattern)) => Accepted
        /\ (call.endPattern = <<>> /\ call.startPattern # <<>>
              /\ InAlphabet(call.startPattern)) => Accepted

(* C9 amended: a prefix+suffix search with both fields empty is rejected   *)
(* before any work; one with exactly one field empty and the other valid   *)
(* and shorter than 44 characters is accepted.                             *)
C9_EmptyDualRejected ==
    call.fn \in StartEndFns =>
        /\ (call.startPattern = <<>> /\ call.endPattern = <<>>)
              => (Rejected /\ NoWorkDone)
        /\ (call.startPattern = <<>> /\ call.endPattern # <<>>
              /\ InAlphabet(call.endPattern) /\ Len(call.endPattern) < 44)
              => Accepted
        /\ (call.endPattern = <<>> /\ call.startPattern # <<>>
              /\ InAlphabet(call.startPattern) /\ Len(call.startPattern) < 44)
              => Accepted

\* the pooled prefix+suffix search called with two empty patterns
C9_Witness ==
    /\ call.fn = "generateVanityWalletStartEndMultiWorker"
    /\ call.startPattern = <<>>
    /\ call.endPattern = <<>>
    /\ promise.state = "rejected"
    /\ promise.value.name = "EmptyDual"

C11_TotalIsAggregatePlusOwn ==
    [][ \A w \in Workers :
            (promise.state = "pending" /\ Handles(w) /\ Head_(w).kind = "success") =>
                /\ promise'.state = "fulfilled"
                /\ promise'.value.totalAttempts = totalAttempts + Head_(w).attempts
                /\ totalAttempts' = totalAttempts
      ]_vars

\* worker 1 won with its first candidate after worker 2 had reported a batch
C11_Witness ==
    /\ promise.state = "fulfilled"
    /\ promise.value.workerId = 1
    /\ promise.value.attempts = 1
    /\ promise.value.totalAttempts = BatchSize + 1
    /\ Len(sent[2]) > 0

\* the progress messages of the workers other than w that have been handled
OthersBatches(w) ==
    {<<v, j>> \in (Workers \ {w}) \X (1..WorkerCap) :
        j <= recv[v] /\ sent[v][j].kind = "progress"}

(* C12: the totalAttempts of a pooled result is the sum of the batches     *)
(* reported by the workers other than the winner plus the winner's         *)
(* attempts: the winner's iterations are counted once, however many        *)
(* progress reports the winner itself sent before it succeeded.            *)
C12_WinnerCountedOnce ==
    [][ \A w \in Workers :
            (promise.state = "pending" /\ Handles(w) /\ Head_(w).kind = "success") =>
                promise'.value.totalAttempts =
                    BatchSize * Cardinality(OthersBatches(w)) + Head_(w).attempts
      ]_vars

(* C13: when several workers have each posted a success message, the       *)
(* result is the one whose message is handled first, whatever the attempt  *)
(* counts; the successes handled later change nothing.                     *)
C13_FirstDeliveredWins ==
    [][ /\ \A w \in Workers :
             (/\ promise.state = "pending"
              /\ Handles(w)
              /\ Head_(w).kind = "success"
              /\ \E v \in Workers \ {w} : wstatus[v] = "done") =>
                 /\ promise'.state = "fulfilled"
                 /\ promise'.value.workerId = w
                 /\ promise'.value.address = Head_(w).address
                 /\ promise'.value.attempts = Head_(w).attempts
        /\ promise.state = "fulfilled" =>
             /\ promise' = promise
             /\ resolved' = resolved
      ]_vars

\* the winner needed more attempts than a worker whose success message was
\* handled after it
C13_Witness ==
    /\ promise.state = "fulfilled"
    /\ \E v \in Workers :
        /\ v # promise.value.workerId
        /\ wstatus[v] = "done"
        /\ recv[v] = Len(sent[v])
        /\ LastSent(v).kind = "success"
        /\ LastSent(v).attempts < promise.value.attempts

(* C14: the single-threaded loop over a fixed sequence of candidates        *)
(* returns the first address of the sequence that satisfies the pattern,    *)
(* with attempts equal to its 1-based position: no candidate before it      *)
(* satisfies the pattern, and the loop never goes past one that does.       *)
C14_FirstMatchAtItsPosition ==
    /\ phase = "returned" =>
        /\ result.attempts \in 1..Len(call.source)
        /\ result.attempts = attempts
        /\ result.address = getAddressFromKeypair(call.source[result.attempts])
        /\ Satisfies(call, result.address)
        /\ \A j \in 1..(result.attempts - 1) :
              ~Satisfies(call, getAddressFromKeypair(call.source[j]))
    /\ phase = "loop" =>
        \A j \in 1..attempts : ~Satisfies(call, getAddressFromKeypair(call.source[j]))

\* prefix "AB" over the addresses xxxx..., ABxx... returned the second one
C14_Witness ==
    /\ call.fn = "generateVanityWallet"
    /\ call.pattern = <<Ch.A, Ch.B>>
    /\ call.caseSensitive
    /\ call.source = <<4, 1>>
    /\ phase = "returned"
    /\ result.address = AddressTable[1]
    /\ result.attempts = 2

\* the function fn has returned from a call
Returned(fn) == phase = "returned" /\ call.fn = fn

\* a pattern that passes validation
Valid(p) == p # <<>> /\ InAlphabet(p)

(* C15: for every address a and valid prefix pattern p, matchesPattern is   *)
(* true iff a starts with p when case-sensitive, and iff lowercase(a)       *)
(* starts with lowercase(p) when not.                                       *)
C15_MatchesPatternIsPrefix ==
    (Returned("matchesPattern") /\ Valid(call.pattern)) =>
        result.value = IsPrefixOf(Folded(call.pattern, call.caseSensitive),
                                  Folded(call.address, call.caseSensitive))

\* "aB" matches the prefix "AB" without case sensitivity
C15_Witness ==
    /\ Returned("matchesPattern")
    /\ ~call.caseSensitive
    /\ call.address = <<Ch.a, Ch.B>>
    /\ call.pattern = <<Ch.A, Ch.B>>
    /\ result.value = TRUE

(* C16: for every address a and valid substring p, containsPattern is true *)
(* iff p occurs at some offset of a when case-sensitive, and iff            *)
(* lowercase(p) occurs at some offset of lowercase(a) when not.             *)
C16_ContainsPatternIsSubstring ==
    (Returned("containsPattern") /\ Valid(call.pattern)) =>
        result.value = OccursIn(Folded(call.pattern, call.caseSensitive),
                                Folded(call.address, call.caseSensitive))

\* "B" is found at the end of "AaB"
C16_Witness ==
    /\ Returned("containsPattern")
    /\ call.caseSensitive
    /\ call.address = <<Ch.A, Ch.a, Ch.B>>
    /\ call.pattern = <<Ch.B>>
    /\ result.value = TRUE

(* C17: for every address a and valid prefix and suffix, both non-empty,    *)
(* with len(prefix) + len(suffix) < len(a), matchesStartEndPattern is true  *)
(* iff a starts with the prefix and a ends with the suffix, each under the  *)
(* same case folding.                                                       *)
C17_StartEndIsPrefixAndSuffix ==
    (/\ Returned("matchesStartEndPattern")
     /\ Valid(call.startPattern)
     /\ Valid(call.endPattern)
     /\ Len(call.startPattern) + Len(call.endPattern) < Len(call.address)) =>
        result.value =
            (/\ IsPrefixOf(Folded(call.startPattern, call.caseSensitive),
                           Folded(call.address, call.caseSensitive))
             /\ IsSuffixOf(Folded(call.endPattern, call.caseSensitive),
                           Folded(call.address, call.caseSensitive)))

\* "AaB" starts with "a" but does not end with "a", without case sensitivity
C17_Witness ==
    /\ Returned("matchesStartEndPattern")
    /\ ~call.caseSensitive
    /\ call.address = <<Ch.A, Ch.a, Ch.B>>
    /\ call.startPattern = <<Ch.a>>
    /\ call.endPattern = <<Ch.a>>
    /\ result.value = FALSE

(* C18: for a prefix and a suffix that are each empty or valid,             *)
(* matchesStartEndPattern with only the prefix non-empty is the prefix      *)
(* check, with only the suffix non-empty is the suffix check, and with      *)
(* both empty is true for every address.                                    *)
C18_StartEndDegrades ==
    (/\ Returned("matchesStartEndPattern")
     /\ call.startPattern = <<>> \/ Valid(call.startPattern)
     /\ call.endPattern = <<>> \/ Valid(call.endPattern)) =>
        /\ (call.startPattern # <<>> /\ call.endPattern = <<>>) =>
              result.value = IsPrefixOf(Folded(call.startPattern, call.caseSensitive),
                                        Folded(call.address, call.caseSensitive))
        /\ (call.startPattern = <<>> /\ call.endPattern # <<>>) =>
              result.value = IsSuffixOf(Folded(call.endPattern, call.caseSensitive),
                                        Folded(call.address, call.caseSensitive))
        /\ (call.startPattern = <<>> /\ call.endPattern = <<>>) => result.value = TRUE

\* suffix "B" alone matches "aAB", which does not begin with it
C18_Witness ==
    /\ Returned("matchesStartEndPattern")
    /\ call.startPattern = <<>>
    /\ call.endPattern = <<Ch.B>>
    /\ call.address = <<Ch.a, Ch.A, Ch.B>>
    /\ result.value = TRUE

(* C19: isValidPattern(s) is true iff s is non-empty and every character   *)
(* of s is one of the 58 characters of the alphabet; it is false for the   *)
(* empty string and for a string that holds 0, O, I or l.                  *)
C19_IsValidPatternIsAlphabet ==
    Returned("isValidPattern") =>
        /\ result.value = (call.pattern # <<>> /\ InAlphabet(call.pattern))
        /\ call.pattern = <<>> => result.value = FALSE
        /\ (\E j \in 1..Len(call.pattern) : call.pattern[j] \in {48, 79, 73, 108})
              => result.value = FALSE

\* "Al" is refused
C19_Witness ==
    /\ Returned("isValidPattern")
    /\ call.pattern = <<Ch.A, 108>>
    /\ result.value = FALSE

(* C20: estimateAttempts(p, true) is 58^len(p) and estimateAttempts(p,     *)
(* false) is 29^len(p): 58 for "A" and 3364 for "AB" when case-sensitive.  *)
C20_EstimateIsPower ==
    Returned("estimateAttempts") =>
        /\ call.caseSensitive => result.value = 58 ^ Len(call.pattern)
        /\ ~call.caseSensitive => result.value = 29 ^ Len(call.pattern)
        /\ (call.caseSensitive /\ call.pattern = <<Ch.A>>) => result.value = 58
        /\ (call.caseSensitive /\ call.pattern = <<Ch.A, Ch.B>>) => result.value = 3364

\* the estimate of "AB" without case sensitivity is 841
C20_Witness ==
    /\ Returned("estimateAttempts")
    /\ ~call.caseSensitive
    /\ call.pattern = <<Ch.A, Ch.B>>
    /\ result.value = 841

(* C21: in a single-threaded search with a progress callback, the calls of *)
(* the callback are exactly the multiples of 10,000 the counter has        *)
(* reached, the matching iteration included, each once, with the counter   *)
(* as argument and in increasing order; without a callback there is none.  *)
C21_CallbackAtEveryBatch ==
    (call.fn \in SingleFns /\ phase \in {"loop", "returned"}) =>
        IF call.hasCb
        THEN /\ Len(cbLog) = attempts \div 10000
             /\ \A j \in 1..Len(cbLog) : cbLog[j] = 10000 * j
        ELSE cbLog = <<>>

\* the 20,000th candidate matched, after two calls of the callback
C21_Witness ==
    /\ call.fn \in SingleFns
    /\ call.hasCb
    /\ phase = "returned"
    /\ result.attempts = 20000
    /\ cbLog = <<10000, 20000>>

\* creating a worker failed in the spawn loop
SpawnFailed == promise.state = "rejected" /\ promise.value.name = "SpawnFailure"

(* C23: when no worker creation fails, a pooled search called with         *)
(* workerCount = k >= 1 has spawned exactly k workers, and one called      *)
(* without a workerCount has spawned one worker per CPU; the workers carry *)
(* the ids 1..k, and each is given the pattern fields and the case flag of *)
(* the call.                                                               *)
C23_SpawnsWorkerCountWorkers ==
    (/\ call.fn \in PooledFns
     /\ phase = "listening"
     /\ ~SpawnFailed
     /\ ~call.workerCount.given \/ call.workerCount.n >= 1) =>
        LET k == IF call.workerCount.given THEN call.workerCount.n ELSE NumCpus
        IN  /\ Len(workers) = k
            /\ Spawned = 1..k
            /\ {workerData(workers[j]).workerId : j \in 1..Len(workers)} = 1..k
            /\ \A w \in Spawned :
                /\ workerData(w).workerId = w
                /\ workerData(w).pattern = call.pattern
                /\ workerData(w).startPattern = call.startPattern
                /\ workerData(w).endPattern = call.endPattern
                /\ workerData(w).caseSensitive = call.caseSensitive
                /\ \A j \in 1..Len(sent[w]) : sent[w][j].workerId = w

\* a search called without a workerCount has its worker posting under id 1,
\* and one called with the largest workerCount has that many workers
C23_Witness ==
    /\ call.fn \in PooledFns
    /\ phase = "listening"
    /\ ~SpawnFailed
    /\ \/ ~call.workerCount.given /\ Len(workers) = NumCpus /\ Len(sent[1]) > 0
       \/ call.workerCount.given /\ call.workerCount.n = MaxWorkers
            /\ Len(workers) = MaxWorkers /\ Len(sent[MaxWorkers]) > 0

(* C24: a running pooled search accepts a cancellation request of the      *)
(* caller at any time, before any success included: whenever the search is *)
(* listening with a worker that has not been terminated and no success has *)
(* been recorded, the program has a step that records no success and       *)
(* after which every spawned worker is terminated.                         *)
C24_CancellationAccepted ==
    (/\ call.fn \in PooledFns
     /\ phase = "listening"
     /\ ~resolved
     /\ \E w \in Spawned : ~terminated[w]) =>
        ENABLED (/\ Next
                 /\ ~resolved'
                 /\ \A w \in Spawned : terminated'[w])

\* worker w has posted a success message or raised an error
Concluded(w) == wstatus[w] \in {"done", "crashed"}

\* no spawned worker is still executing its loop
AllStopped == \A w \in Spawned : terminated[w] \/ wstatus[w] # "running"

\* under fair delivery, a pooled search of which some worker has matched or
\* raised an error eventually settles
C25_EventuallySettles ==
    [](((call.fn \in PooledFns) /\ (\E w \in Spawned : Concluded(w))) => <>Settled)

HandledProgress ==
    UNION {{<<w, j>> : j \in {i \in 1..recv[w] : sent[w][i].kind = "progress"}} :
            w \in Workers}

ProgressPosted(w) == {j \in 1..Len(sent[w]) : sent[w][j].kind = "progress"}

(* C27: a worker's loop behaves as the single-threaded loop does on the    *)
(* same candidates: it has posted one progress report for every multiple   *)
(* of 10,000 its counter has reached, the matching iteration included, in  *)
(* increasing order (the counter values for which the single-threaded loop *)
(* calls its callback), and its success message carries the matching       *)
(* address and the counter of the matching iteration.                      *)
C27_WorkerLoopAsSingleLoop ==
    \A w \in Spawned :
        wstatus[w] \in {"running", "done"} =>
            /\ Cardinality(ProgressPosted(w)) = wattempts[w] \div 10000
            /\ \A j \in ProgressPosted(w) : sent[w][j].attempts = 10000 * j
            /\ wstatus[w] = "done" =>
                /\ LastSent(w).kind = "success"
                /\ LastSent(w).attempts = wattempts[w]
                /\ Satisfies(call, LastSent(w).address)

\* the part of C27 that the worker's loop satisfies: progress reports for
\* the multiples of 10,000 reached by non-matching iterations
C27_ProgressExceptOnMatch ==
    \A w \in Spawned :
        wstatus[w] \in {"running", "done"} =>
            /\ Cardinality(ProgressPosted(w)) =
                IF wstatus[w] = "done" THEN (wattempts[w] - 1) \div 10000
                ELSE wattempts[w] \div 10000
            /\ \A j \in ProgressPosted(w) : sent[w][j].attempts = 10000 * j
            /\ wstatus[w] = "done" =>
                /\ LastSent(w).kind = "success"
                /\ LastSent(w).attempts = wattempts[w]
                /\ Satisfies(call, LastSent(w).address)

(* C28: the single-threaded loop exits only on a match.  In every pass     *)
(* the loop takes the next candidate and counts it; it returns in that     *)
(* pass iff the candidate satisfies the pattern, and goes on with the loop *)
(* otherwise; and whatever the count reached, the loop takes the next      *)
(* candidate as long as there is one: the count never ends the loop.       *)
C28_ExitsOnlyOnMatch ==
    /\ []((phase = "loop" /\ attempts < Len(call.source)) =>
            ENABLED SearchLoopOverSource)
    /\ [][ phase = "loop" =>
            LET candidate == getAddressFromKeypair(call.source[attempts + 1])
            IN  /\ attempts' = attempts + 1
                /\ phase' \in {"loop", "returned"}
                /\ (phase' = "returned") <=> Satisfies(call, candidate)
                /\ phase' = "returned" => result'.address = candidate
                /\ phase' = "loop" => result' = NoResult
       ]_vars

\* the loop has gone through a longest source of non-matching candidates and
\* has not returned; another returned at the last candidate of such a source
C28_Witness ==
    /\ Len(call.source) = MaxSourceLen
    /\ attempts = MaxSourceLen
    /\ \/ phase = "loop"
       \/ phase = "returned" /\ result.attempts = MaxSourceLen

\* the error a call was rejected with
ErrorName == IF call.fn \in PooledFns THEN promise.value.name ELSE error

\* the length a prefix or suffix counts for: none when it is absent
LengthOf(p) == IF Blank(p) THEN 0 ELSE Len(p)

(* C29: a prefix+suffix search applies its checks in the order both        *)
(* absent, invalid prefix, invalid suffix, combined length, a field that   *)
(* is empty or white space only being absent: a call is rejected with the  *)
(* first of these that applies, so an invalid prefix gives the prefix      *)
(* error even when the suffix is invalid too or the length is 44 or more,  *)
(* and an invalid suffix with a valid or absent prefix gives the suffix    *)
(* error; a call to which none applies is accepted.                        *)
C29_ChecksInOrder ==
    (call.fn \in StartEndFns /\ phase # "idle") =>
        LET s == call.startPattern
            e == call.endPattern
            expected ==
                IF Blank(s) /\ Blank(e) THEN "EmptyDual"
                ELSE IF ~Blank(s) /\ ~InAlphabet(s) THEN "InvalidStart"
                ELSE IF ~Blank(e) /\ ~InAlphabet(e) THEN "InvalidEnd"
                ELSE IF LengthOf(s) + LengthOf(e) >= 44 THEN "TooLong"
                ELSE "none"
        IN  IF expected = "none" THEN Accepted
            ELSE Rejected /\ ErrorName = expected

\* an invalid prefix with a 44-character suffix was rejected for its prefix
C29_Witness ==
    /\ call.fn \in StartEndFns
    /\ ~InAlphabet(call.startPattern)
    /\ Len(call.endPattern) >= 44
    /\ Rejected
    /\ ErrorName = "InvalidStart"

(* C30: once the promise of a pooled search is settled, by a success, by a *)
(* worker's error or by a spawn failure, no step invokes the progress      *)
(* callback or changes the aggregate.                                      *)
C30_QuietAfterSettled ==
    [][ (call.fn \in PooledFns /\ Settled) =>
            /\ cbLog' = cbLog
            /\ totalAttempts' = totalAttempts
      ]_vars

\* the part of C30 that the handlers satisfy: nothing changes once a success
\* has been recorded
C30_QuietAfterResolved ==
    [][ (call.fn \in PooledFns /\ promise.state = "fulfilled") =>
            /\ cbLog' = cbLog
            /\ totalAttempts' = totalAttempts
      ]_vars

(* C22: the progress callback is advisory.  Of two executions of the same  *)
(* search, one with a progress callback and one without, the second can    *)
(* follow every step of the first on the same candidate and the same       *)
(* delivered message: after it the two agree on everything but the         *)
(* callback's invocations, so on the result (address, keys, attempts,      *)
(* totalAttempts), on the promise, on the aggregate and on the workers     *)
(* terminated.                                                             *)
C22_CallbackIsAdvisory ==
    (twin.swapped /\ ~InStep) => ENABLED FollowStep

\* two pooled executions have resolved with the same result after the one
\* with the callback had it invoked, and two single-threaded ones have
\* returned the same result after 20,000 attempts and two invocations
C22_Witness ==
    /\ twin.swapped
    /\ InStep
    /\ call.hasCb # twin.state.call.hasCb
    /\ \/ /\ promise.state = "fulfilled"
          /\ promise = twin.state.promise
          /\ terminated = twin.state.terminated
          /\ Len(cbLog) + Len(twin.state.cbLog) > 0
       \/ /\ phase = "returned"
          /\ result = twin.state.result
          /\ result.attempts = 20000
          /\ Len(cbLog) + Len(twin.state.cbLog) = 2

\* the messages worker w has posted with postMessage, in order
PostedBy(w) == SelectSeq(sent[w], LAMBDA m : m.kind # "error")

(* C31: a worker posts at most one success message, and that one last:     *)
(* every progress message it posts comes before it and no message follows  *)
(* it; the attempts of the successive messages of a worker increase        *)
(* strictly, and a success message carries attempts of 1 or more.          *)
C31_SuccessIsLastMessage ==
    \A w \in Workers :
        LET posted == PostedBy(w)
        IN  /\ Cardinality({j \in 1..Len(posted) : posted[j].kind = "success"}) <= 1
            /\ \A j \in 1..Len(posted) :
                /\ posted[j].kind \in {"progress", "success"}
                /\ posted[j].kind = "success" => (j = Len(posted) /\ posted[j].attempts >= 1)
                /\ j > 1 => posted[j].attempts > posted[j - 1].attempts
            /\ (\E j \in 1..Len(sent[w]) : sent[w][j].kind = "success") =>
                    LastSent(w).kind = "success"

\* a worker has posted a progress message for 10,000 attempts and then its
\* success message for 10,001
C31_Witness ==
    \E w \in Workers :
        /\ Len(sent[w]) = 2
        /\ sent[w][1].kind = "progress" /\ sent[w][1].attempts = 10000
        /\ sent[w][2].kind = "success" /\ sent[w][2].attempts = 10001

\* the call of the pooled function fn that searches for what the matcher
\* called in c was given
PooledCallFor(fn, c) ==
    [fn |-> fn,
     pattern |-> IF "pattern" \in DOMAIN c THEN c.pattern ELSE <<>>,
     startPattern |-> IF "startPattern" \in DOMAIN c THEN c.startPattern ELSE <<>>,
     endPattern |-> IF "endPattern" \in DOMAIN c THEN c.endPattern ELSE <<>>,
     caseSensitive |-> c.caseSensitive]

(* C32: for every address, pattern(s) and case flag, each matcher of        *)
(* worker.js returns what the exported matcher of the same name returns,   *)
(* and the loop body of a worker of the prefix, contains and start/end     *)
(* pooled function takes for its match test the value of matchesPattern,   *)
(* containsPattern and matchesStartEndPattern respectively.                *)
C32_WorkerMatchersAgree ==
    /\ Returned("matchesPattern") =>
        /\ result.value =
            worker_matchesPattern(call.address, call.pattern, call.caseSensitive)
        /\ result.value =
            IsMatch(workerDataOf(PooledCallFor("generateVanityWalletMultiWorker", call), 1),
                    call.address)
    /\ Returned("containsPattern") =>
        /\ result.value =
            worker_containsPattern(call.address, call.pattern, call.caseSensitive)
        /\ result.value =
            IsMatch(workerDataOf(PooledCallFor("generateVanityWalletContainsMultiWorker", call), 1),
                    call.address)
    /\ Returned("matchesStartEndPattern") =>
        /\ result.value =
            worker_matchesStartEndPattern(call.address, call.startPattern,
                                          call.endPattern, call.caseSensitive)
        /\ result.value =
            IsMatch(workerDataOf(PooledCallFor("generateVanityWalletStartEndMultiWorker", call), 1),
                    call.address)

\* a case-insensitive start/end call that matched an address of another case
\* than its patterns
C32_Witness ==
    /\ Returned("matchesStartEndPattern")
    /\ ~call.caseSensitive
    /\ call.startPattern = <<Ch.a>>
    /\ call.endPattern = <<Ch.B>>
    /\ call.address = <<Ch.A, Ch.a, Ch.B>>
    /\ result.value = TRUE

\* address, publicKey and privateKey of r are those of keypair k
KeysOf(r, k) ==
    /\ r.address = AddressTable[k]
    /\ r.publicKey = r.address
    /\ r.privateKey = <<Ch.s, Ch.zero + k>>

(* C33: in every result, the return value of a single-threaded search and  *)
(* the success message of a worker, the address, the publicKey and the     *)
(* privateKey are those of one keypair, the one generated in the matching  *)
(* iteration: the address equals the publicKey and satisfies the pattern,  *)
(* and the privateKey is the secret key of that keypair and of no other.   *)
C33_ResultOfOneKeypair ==
    /\ (call.fn \in SingleFns /\ phase = "returned") =>
        /\ result.keypair \in KeyPool
        /\ KeysOf(result, result.keypair)
        /\ Satisfies(call, AddressTable[result.keypair])
        /\ \A k \in KeyPool \ {result.keypair} : ~KeysOf(result, k)
    /\ call.fn \in PooledFns =>
        \A w \in Workers : \A j \in 1..Len(sent[w]) :
            sent[w][j].kind = "success" =>
                /\ wkey[w] \in KeyPool
                /\ KeysOf(sent[w][j], wkey[w])
                /\ Satisfies(call, AddressTable[wkey[w]])
                /\ \A k \in KeyPool \ {wkey[w]} : ~KeysOf(sent[w][j], k)

\* a single-threaded search returned the keys of the keypair "ab..." after
\* discarded candidates, and a worker posted those of the keypair "xAB..."
C33_Witness ==
    \/ /\ call.fn \in SingleFns
       /\ phase = "returned"
       /\ result.attempts > 1
       /\ result.keypair = 2
       /\ result.privateKey = <<Ch.s, Ch.zero + 2>>
    \/ /\ call.fn \in PooledFns
       /\ \E w \in Workers :
            /\ wkey[w] = 3
            /\ sent[w] # <<>>
            /\ LastSent(w).kind = "success"
            /\ LastSent(w).attempts > 1
            /\ LastSent(w).privateKey = <<Ch.s, Ch.zero + 3>>

(* C34: whatever integer workerCount a pooled search with a valid pattern  *)
(* is called with, zero and the negative ones included, at least one       *)
(* worker is spawned: a search that is listening has a worker, or was      *)
(* settled by the failure to create one.                                   *)
C34_SomeWorkerSpawned ==
    (call.fn \in PooledFns /\ phase = "listening") =>
        (Spawned # {} \/ SpawnFailed)

\* the part of C34 that the spawn loop satisfies: every workerCount of zero
\* or more
C34_SomeWorkerUnlessNegative ==
    (/\ call.fn \in PooledFns
     /\ phase = "listening"
     /\ call.workerCount.given => call.workerCount.n >= 0) =>
        (Spawned # {} \/ SpawnFailed)

\* the characters of which isAllUppercase accepts the one-character address
AcceptedUppercase == {c \in 0..127 : isAllUppercase(<<c>>)}

(* C35: the number of uppercase characters calculateProbability computes   *)
(* with, uppercaseBase58Chars, is the number of distinct characters that   *)
(* isAllUppercase accepts, the letters A-Z without I and O.                *)
C35_ConstantIsClassSize ==
    Returned("calculateProbability") =>
        /\ AcceptedUppercase = (65..90) \ {73, 79}
        /\ result.value.uppercase = Cardinality(AcceptedUppercase)

\* the part of C35 that holds: isAllUppercase accepts an address iff it is
\* not empty and made of the letters A-Z without I and O
C35_ClassIsUppercaseWithoutIO ==
    Returned("isAllUppercase") =>
        (result.value <=>
            /\ call.address # <<>>
            /\ \A j \in 1..Len(call.address) :
                /\ call.address[j] \in 65..90
                /\ call.address[j] \notin {73, 79})

====
